---------------------------- MODULE Spec2Model ----------------------------
(***************************************************************************)
(* Model of src/server/main.py: the Danish recipe ingredient parser.       *)
(*                                                                         *)
(* Text is modelled by TLA+ strings; a character is a string of length 1.  *)
(* The model keeps every character of a value in 7-bit ASCII: dk(s) writes *)
(* the Danish letters and the fraction glyphs of s with the stand-ins of   *)
(* DK_ASCII, one character for one character, so "hvidløg" is held as      *)
(* "hvidl~g" and "½" as "#"; the en dash (U+2013) is held as "=".  The     *)
(* lexicon is written as in the source and passed through dk.  The stand-  *)
(* ins do not occur as themselves in any input of the model.               *)
(* Python's None is the empty tuple <<>> and a present value x is <<x>>.   *)
(* The alphabet of the inputs has no line break inside a line, so "." of a *)
(* regular expression matches every character of a line.                   *)
(***************************************************************************)
EXTENDS Integers, Sequences, FiniteSets, TLC

(***************************************************************************)
(* Bounds of the model.                                                    *)
(***************************************************************************)
MaxFrags == 2

(***************************************************************************)
(* Python string primitives.                                               *)
(***************************************************************************)
None == <<>>
Some(x) == <<x>>

Ch(s, i) == SubSeq(s, i, i)
From(s, i) == SubSeq(s, i, Len(s))
Upto(s, i) == SubSeq(s, 1, i)

DK_UNICODE == "æøåéÆØÅÉ½¼¾"
DK_ASCII   == "{~}&[^]@#$%"
EN_DASH    == "="

DkMap ==
    [c \in {Ch(DK_UNICODE, i) : i \in 1..Len(DK_UNICODE)} |->
        Ch(DK_ASCII, CHOOSE i \in 1..Len(DK_UNICODE) : Ch(DK_UNICODE, i) = c)]

RECURSIVE DkFrom(_, _)
DkFrom(s, i) ==
    IF i > Len(s) THEN ""
    ELSE (IF Ch(s, i) \in DOMAIN DkMap THEN DkMap[Ch(s, i)] ELSE Ch(s, i))
             \o DkFrom(s, i + 1)

dk(s) == DkFrom(s, 1)
dkSet(S) == {dk(s) : s \in S}
dkMap(f) == [e \in dkSet(DOMAIN f) |-> dk(f[CHOOSE k \in DOMAIN f : dk(k) = e])]

\* str.isspace / regex \s, on the alphabet of the model
WHITESPACE == {" ", "\t"}
\* regex \d
DIGITS == {"0", "1", "2", "3", "4", "5", "6", "7", "8", "9"}
\* the glyphs for one half, one quarter and three quarters, as dk holds them
HALF == "#"
QUARTER == "$"
THREE_QUARTERS == "%"
FRACTIONS == {HALF, QUARTER, THREE_QUARTERS}
\* a to z and the letters ae, oe, aa and e-acute, as dk holds them
LOWERCASE == "abcdefghijklmnopqrstuvwxyz{~}&"
UPPERCASE == "ABCDEFGHIJKLMNOPQRSTUVWXYZ[^]@"
LETTERS == {Ch(LOWERCASE, i) : i \in 1..Len(LOWERCASE)}
               \cup {Ch(UPPERCASE, i) : i \in 1..Len(UPPERCASE)}
\* regex \w (unicode): letters, digits, underscore and numeric glyphs
WORDCHARS == LETTERS \cup DIGITS \cup FRACTIONS \cup {"_"}

LowerMap ==
    [c \in {Ch(UPPERCASE, i) : i \in 1..Len(UPPERCASE)} |->
        Ch(LOWERCASE, CHOOSE i \in 1..Len(UPPERCASE) : Ch(UPPERCASE, i) = c)]

LowerCh(c) == IF c \in DOMAIN LowerMap THEN LowerMap[c] ELSE c

RECURSIVE LowerFrom(_, _)
LowerFrom(s, i) == IF i > Len(s) THEN "" ELSE LowerCh(Ch(s, i)) \o LowerFrom(s, i + 1)

\* str.lower()
lower(s) == LowerFrom(s, 1)

RECURSIVE lstrip(_)
lstrip(s) == IF s # "" /\ Ch(s, 1) \in WHITESPACE THEN lstrip(From(s, 2)) ELSE s

RECURSIVE rstrip(_)
rstrip(s) ==
    IF s # "" /\ Ch(s, Len(s)) \in WHITESPACE THEN rstrip(Upto(s, Len(s) - 1)) ELSE s

strip(s) == rstrip(lstrip(s))

\* number of characters of s from position i on that belong to S
RECURSIVE Span(_, _, _)
Span(s, i, S) == IF i <= Len(s) /\ Ch(s, i) \in S THEN 1 + Span(s, i + 1, S) ELSE 0

\* number of characters of s from position i on that are not whitespace
RECURSIVE WordSpan(_, _)
WordSpan(s, i) ==
    IF i <= Len(s) /\ Ch(s, i) \notin WHITESPACE THEN 1 + WordSpan(s, i + 1) ELSE 0

\* str.split(): the whitespace-separated tokens
RECURSIVE split(_)
split(s) ==
    LET t == lstrip(s)
        n == WordSpan(t, 1)
    IN  IF t = "" THEN <<>> ELSE <<Upto(t, n)>> \o split(From(t, n + 1))

\* ' '.join(words)
RECURSIVE join(_)
join(words) ==
    IF words = <<>> THEN ""
    ELSE IF Len(words) = 1 THEN words[1]
    ELSE words[1] \o " " \o join(Tail(words))

StartsAt(s, i, w) == i >= 1 /\ i + Len(w) - 1 <= Len(s) /\ SubSeq(s, i, i + Len(w) - 1) = w

\* the first position >= i at which w occurs in s, or 0  (w in s, re.search)
RECURSIVE Find(_, _, _)
Find(s, w, i) ==
    IF i + Len(w) - 1 > Len(s) THEN 0
    ELSE IF StartsAt(s, i, w) THEN i
    ELSE Find(s, w, i + 1)

Contains(s, w) == Find(s, w, 1) # 0

\* regex \b at the position between s[i-1] and s[i]
WordBoundary(s, i) ==
    LET before == i > 1 /\ i - 1 <= Len(s) /\ Ch(s, i - 1) \in WORDCHARS
        after  == i >= 1 /\ i <= Len(s) /\ Ch(s, i) \in WORDCHARS
    IN  before # after

(***************************************************************************)
(* The lexicon.                                                            *)
(***************************************************************************)
DANISH_CORRECTIONS ==
    dkMap(
    ("ræsk" :> "græsk") @@ ("yohurt" :> "yoghurt") @@ ("hviøg" :> "hvidløg") @@
    ("kyllinebryst" :> "kyllingebryst") @@ ("spisesked" :> "spiseske") @@
    ("tesked" :> "teske") @@ ("stykher" :> "stykker") @@ ("pakher" :> "pakker") @@
    ("daser" :> "dåser") @@ ("dose" :> "dåse") @@ ("øg" :> "løg") @@
    ("røøg" :> "rødløg") @@ ("fed hviøg" :> "fed hvidløg") @@
    ("citroner" :> "citron") @@ ("kartofier" :> "kartofler") @@
    ("guierod" :> "gulerod") @@ ("guierødder" :> "gulerødder") @@
    ("tomatcr" :> "tomater") @@ ("basilikuni" :> "basilikum") @@
    ("persilje" :> "persille"))

DANISH_UNITS ==
    dkMap(
    ("spsk" :> "spiseske") @@ ("tsk" :> "teske") @@ ("stk" :> "stykker") @@
    ("pk" :> "pakke") @@ ("dl" :> "deciliter") @@ ("g" :> "gram") @@
    ("kg" :> "kilogram") @@ ("l" :> "liter") @@ ("ml" :> "milliliter") @@
    ("cl" :> "centiliter") @@ ("ds" :> "dåse"))

SPECIAL_DANISH_UNITS ==
    dkSet(
    {"fed", "håndfuld", "håndfulde", "knivspids", "pind", "pose", "bundt",
     "bundle", "neve", "klat", "skive", "klump"})

INGREDIENT_CORE_MAPPING ==
    (dk("hvidløg") :> dkSet({"hvidløgsfed"})) @@
    ("persille" :> {"bredbladet persille", "bladpersille"}) @@
    ("basilikum" :> {"frisk basilikum"}) @@
    ("tomater" :> {"hakkede tomater", "cherry tomater", "cocktail tomater"})

NON_INGREDIENT_WORDS ==
    dkSet(
    {"styrke", "mere", "mindre", "efter", "smag", "behov", "ønske", "cirka", "ca",
     "evt", "eventuelt", "til", "som", "eller", "og", "af", "med", "uden", "for",
     "servering", "pynt", "garnering", "side", "ekstra", "let", "god", "fin",
     "stor", "lille"})

(***************************************************************************)
(* clean_danish_text.  The encode/decode pass only drops lone surrogates,  *)
(* which the alphabet of the model does not contain.                       *)
(***************************************************************************)
CorrectWord(word) ==
    IF word \in DOMAIN DANISH_UNITS THEN DANISH_UNITS[word]
    ELSE IF word \in DOMAIN DANISH_CORRECTIONS THEN DANISH_CORRECTIONS[word]
    ELSE word

clean_danish_text(text) ==
    LET words == split(strip(lower(text)))
    IN  join([i \in 1..Len(words) |-> CorrectWord(words[i])])

(***************************************************************************)
(* clean_ingredient_name.                                                  *)
(***************************************************************************)
\* where a match of  ,?\s*  that ends right before position k begins
RECURSIVE SpaceRunStart(_, _)
SpaceRunStart(s, k) ==
    IF k > 1 /\ Ch(s, k - 1) \in WHITESPACE THEN SpaceRunStart(s, k - 1) ELSE k

CommaSpaceStart(s, k) ==
    LET w == SpaceRunStart(s, k)
    IN  IF w > 1 /\ Ch(s, w - 1) = "," THEN w - 1 ELSE w

\* re.sub(r',?\s*(saft og .*skal.*)', '', s)
RemoveSaftOgSkal(s) ==
    LET k == Find(s, "saft og ", 1)
    IN  IF k # 0 /\ Find(s, "skal", k + 8) # 0
        THEN Upto(s, CommaSpaceStart(s, k) - 1)
        ELSE s

\* re.sub(r',?\s*(kun saften)', '', s)
RECURSIVE RemoveKunSaften(_)
RemoveKunSaften(s) ==
    LET k == Find(s, "kun saften", 1)
    IN  IF k = 0 THEN s
        ELSE Upto(s, CommaSpaceStart(s, k) - 1) \o RemoveKunSaften(From(s, k + 10))

\* re.sub(r'\(.*?\)', '', s)
RECURSIVE RemoveParenthetical(_)
RemoveParenthetical(s) ==
    LET o == Find(s, "(", 1)
        c == IF o = 0 THEN 0 ELSE Find(s, ")", o + 1)
    IN  IF o = 0 \/ c = 0 THEN s
        ELSE Upto(s, o - 1) \o RemoveParenthetical(From(s, c + 1))

prep_terms ==
    dkSet(
    {"finthakkede", "fintrevet", "hakket", "finsnittet", "opskåret", "skårne",
     "skåret", "delte", "opdelte", "smuldret", "fintsnittet", "groftrevet",
     "kogte", "ristede", "sautéede", "opvarmede", "grillede", "stegte",
     "blancherede", "røget", "skrællede", "rensede", "pressede", "finthakket",
     "grofthakket"})

\* the preparation terms that match s at position i as a whole word
PrepAt(s, i) ==
    IF ~WordBoundary(s, i) THEN {}
    ELSE {t \in prep_terms :
            /\ i + Len(t) - 1 <= Len(s)
            /\ lower(SubSeq(s, i, i + Len(t) - 1)) = t
            /\ WordBoundary(s, i + Len(t))}

\* re.sub(r'\b(' + '|'.join(prep_terms) + r')\b', '', s, flags=re.IGNORECASE)
RECURSIVE RemovePrepTermsFrom(_, _)
RemovePrepTermsFrom(s, i) ==
    IF i > Len(s) THEN ""
    ELSE IF PrepAt(s, i) # {}
         THEN RemovePrepTermsFrom(s, i + Len(CHOOSE t \in PrepAt(s, i) : TRUE))
         ELSE Ch(s, i) \o RemovePrepTermsFrom(s, i + 1)

RemovePrepTerms(s) == RemovePrepTermsFrom(s, 1)

PUNCTUATION == {",", ".", "-"}

\* re.sub(r'[,.-]+$', '', s)
RECURSIVE StripTrailingPunctuation(_)
StripTrailingPunctuation(s) ==
    IF s # "" /\ Ch(s, Len(s)) \in PUNCTUATION
    THEN StripTrailingPunctuation(Upto(s, Len(s) - 1))
    ELSE s

\* re.sub(r'^[,.-]+', '', s)
RECURSIVE StripLeadingPunctuation(_)
StripLeadingPunctuation(s) ==
    IF s # "" /\ Ch(s, 1) \in PUNCTUATION
    THEN StripLeadingPunctuation(From(s, 2))
    ELSE s

\* re.sub(r'\s+', ' ', s)
RECURSIVE NormalizeSpaces(_)
NormalizeSpaces(s) ==
    IF s = "" THEN ""
    ELSE IF Ch(s, 1) \in WHITESPACE
         THEN " " \o NormalizeSpaces(From(s, 1 + Span(s, 1, WHITESPACE)))
         ELSE Ch(s, 1) \o NormalizeSpaces(From(s, 2))

\* lines 173-200: the text of clean_name before the lexicon checks
CleanedText(raw_name) ==
    LET a == strip(lower(raw_name))
        b == RemoveParenthetical(RemoveKunSaften(RemoveSaftOgSkal(a)))
        c == RemovePrepTerms(b)
        d == StripLeadingPunctuation(StripTrailingPunctuation(c))
    IN  strip(NormalizeSpaces(d))

\* NameOf without the rejection of non-ingredient words
NameOf_NoRejection(clean_name) ==
    IF \E core \in DOMAIN INGREDIENT_CORE_MAPPING :
           clean_name \in INGREDIENT_CORE_MAPPING[core]
    THEN Some(CHOOSE core \in DOMAIN INGREDIENT_CORE_MAPPING :
                  clean_name \in INGREDIENT_CORE_MAPPING[core])
    ELSE IF clean_name # "" THEN Some(clean_name)
    ELSE None

\* lines 202-212: the lexicon checks on the cleaned text
NameOf(clean_name) ==
    IF clean_name \in NON_INGREDIENT_WORDS THEN None
    ELSE IF \E core \in DOMAIN INGREDIENT_CORE_MAPPING :
                clean_name \in INGREDIENT_CORE_MAPPING[core]
         THEN Some(CHOOSE core \in DOMAIN INGREDIENT_CORE_MAPPING :
                       clean_name \in INGREDIENT_CORE_MAPPING[core])
    ELSE IF clean_name # "" THEN Some(clean_name)
    ELSE None

clean_ingredient_name(raw_name) == NameOf(CleanedText(raw_name))

(***************************************************************************)
(* normalize_unit.                                                         *)
(***************************************************************************)
\* normalize_unit without the lowercasing of line 221
normalize_unit_NoLower(unit) ==
    LET unit_stripped == strip(unit)
    IN  IF unit = "" THEN ""
        ELSE IF unit_stripped \in SPECIAL_DANISH_UNITS THEN unit_stripped
        ELSE IF unit_stripped \in DOMAIN DANISH_UNITS THEN DANISH_UNITS[unit_stripped]
        ELSE unit_stripped

normalize_unit(unit) ==
    LET unit_lower == strip(lower(unit))
    IN  IF unit = "" THEN ""
        ELSE IF unit_lower \in SPECIAL_DANISH_UNITS THEN unit_lower
        ELSE IF unit_lower \in DOMAIN DANISH_UNITS THEN DANISH_UNITS[unit_lower]
        ELSE unit_lower

(***************************************************************************)
(* parse_ingredient_text.                                                  *)
(***************************************************************************)
NUMBER_SEPARATORS == {".", ",", "/"}

\* the position after a match of  \d+(?:[.,/]\d+)?  that begins at i
NumberEnd(s, i) ==
    LET j == i + Span(s, i, DIGITS)
    IN  IF j + 1 <= Len(s) /\ Ch(s, j) \in NUMBER_SEPARATORS /\ Ch(s, j + 1) \in DIGITS
        THEN j + 1 + Span(s, j + 1, DIGITS)
        ELSE j

\* the position after a match of  \d+(?:[.,/]\d+)?(?:\s*-\s*\d+(?:[.,/]\d+)?)?
\* j is where the first number ends, d where a dash may stand and n where a
\* second number may begin
RangeTail(s, j, d, n) ==
    IF d <= Len(s) /\ Ch(s, d) = "-" /\ n <= Len(s) /\ Ch(s, n) \in DIGITS
    THEN NumberEnd(s, n)
    ELSE j

SkipSpaces(s, i) == i + Span(s, i, WHITESPACE)

RangeDash(s, j, d) == RangeTail(s, j, d, SkipSpaces(s, d + 1))

RangeFrom(s, j) == RangeDash(s, j, SkipSpaces(s, j))

RangeEnd(s, i) == RangeFrom(s, NumberEnd(s, i))

\* the position after a match of  \d+\s*<glyph>  at the start of s, or 0
MixedEnd(s, glyph) ==
    LET j == 1 + Span(s, 1, DIGITS)
        g == j + Span(s, j, WHITESPACE)
    IN  IF j > 1 /\ g <= Len(s) /\ Ch(s, g) = glyph THEN g + 1 ELSE 0

\* amount_match.end() as a count of characters, or 0 when amount_pattern
\* does not match; the alternatives are tried in the order of the pattern
AmountMatchEnd(text) ==
    IF text # "" /\ Ch(text, 1) \in DIGITS THEN RangeEnd(text, 1) - 1
    ELSE IF StartsAt(text, 1, "?") THEN 1
    ELSE IF MixedEnd(text, HALF) # 0 THEN MixedEnd(text, HALF) - 1
    ELSE IF MixedEnd(text, QUARTER) # 0 THEN MixedEnd(text, QUARTER) - 1
    ELSE IF MixedEnd(text, THREE_QUARTERS) # 0 THEN MixedEnd(text, THREE_QUARTERS) - 1
    ELSE IF text # "" /\ Ch(text, 1) \in FRACTIONS THEN 1
    ELSE 0

\* lines 241-247: amount and remaining_text when the match ends after e characters
AmountSplit(text, e) ==
    IF e = 0 THEN [amount |-> "?", remaining_text |-> text]
    ELSE [amount |-> Upto(text, e), remaining_text |-> strip(From(text, e + 1))]

ExtractAmount(text) == AmountSplit(text, AmountMatchEnd(text))

all_units ==
    DOMAIN DANISH_UNITS \cup {DANISH_UNITS[k] : k \in DOMAIN DANISH_UNITS}
        \cup SPECIAL_DANISH_UNITS

\* the alternatives of unit_pattern that match at the start of s
UnitCandidates(s) ==
    {u \in all_units :
        /\ Len(u) <= Len(s)
        /\ lower(Upto(s, Len(u))) = u
        /\ WordBoundary(s, Len(u) + 1)}

\* unit_match.group(1), or None: the alternatives are sorted longest first
FirstAlternative(s, c) ==
    IF c = {} THEN None
    ELSE Some(Upto(s, Len(CHOOSE u \in c : \A v \in c : Len(v) <= Len(u))))

UnitMatch(s) == FirstAlternative(s, UnitCandidates(s))

\* lines 256-260: unit and ingredient_text for the match m of unit_pattern
UnitSplit(text, m) ==
    IF m = None THEN [unit |-> "", ingredient_text |-> text]
    ELSE [unit |-> normalize_unit(m[1]),
          ingredient_text |-> strip(From(text, Len(m[1]) + 1))]

ExtractUnit(text) == UnitSplit(text, UnitMatch(text))

Ingredient(name, amount, unit) == [name |-> name, amount |-> amount, unit |-> unit]

\* lines 262-272
Named(ingredient_name, a, u) ==
    IF ingredient_name = None THEN None
    ELSE Some(Ingredient(ingredient_name[1], a.amount, u.unit))

\* lines 249-262
WithUnit(a, u) == Named(clean_ingredient_name(u.ingredient_text), a, u)

\* lines 237-247
WithAmount(a) == WithUnit(a, ExtractUnit(a.remaining_text))

parse_ingredient_text(raw) ==
    IF strip(raw) = "" THEN None ELSE WithAmount(ExtractAmount(strip(raw)))

(***************************************************************************)
(* Direct calls of the three pure functions (as the /test-parsing endpoint *)
(* calls parse_ingredient_text), on inputs built from fragments.           *)
(***************************************************************************)
VARIABLES call, arg, pc, amount, remaining_text, unit, ingredient_text, result, again

lineVars == <<call, arg, pc, amount, remaining_text, unit, ingredient_text, result, again>>

(***************************************************************************)
(* State of a request to /parse-image or /parse-url.  origin, passed and   *)
(* trace are history variables: the source line of each parsed Ingredient, *)
(* the lines handed to parse_ingredient_text, and the strategies run.      *)
(***************************************************************************)
VARIABLES endpoint, extracted_text, page, at, idx, lines, ingredients, origin, passed,
          unique_ingredients, unique_origin, recipe_title, trace, response

requestVars == <<endpoint, extracted_text, page, at, idx, lines, ingredients, origin,
                 passed, unique_ingredients, unique_origin, recipe_title, trace, response>>

vars == <<lineVars, requestVars>>

NoPage == [scripts |-> <<>>, elements |-> <<>>, list_items |-> <<>>,
           title_elements |-> <<>>, h1 |-> <<>>, title |-> None]

NoRequest ==
    /\ endpoint = "none"
    /\ extracted_text = ""
    /\ page = NoPage
    /\ at = "idle"
    /\ idx = 0
    /\ lines = <<>>
    /\ ingredients = <<>>
    /\ origin = <<>>
    /\ passed = {}
    /\ unique_ingredients = <<>>
    /\ unique_origin = <<>>
    /\ recipe_title = None
    /\ trace = <<>>
    /\ response = None

NoCall ==
    /\ call = "none"
    /\ arg = ""
    /\ pc = "idle"
    /\ amount = ""
    /\ remaining_text = ""
    /\ unit = ""
    /\ ingredient_text = ""
    /\ result = None
    /\ again = None

UpperCh(c) ==
    IF \E i \in 1..Len(LOWERCASE) : Ch(LOWERCASE, i) = c
    THEN Ch(UPPERCASE, CHOOSE i \in 1..Len(LOWERCASE) : Ch(LOWERCASE, i) = c)
    ELSE c

RECURSIVE upper(_)
upper(s) == IF s = "" THEN "" ELSE UpperCh(Ch(s, 1)) \o upper(From(s, 2))

capitalize(s) == IF s = "" THEN "" ELSE UpperCh(Ch(s, 1)) \o From(s, 2)

\* amount and unit at the start of a line
Prefixes ==
    dkSet(
    {"", "6 ", "6 fed ", "2 FED ", "1 Håndfulde ", "2 håndfuld ", "2 dl ", "500 g ",
     "1,5 l ", "2-3 ", "1/2 ", "½ ", "1 ½ dl ", "1½ ", "? ", "pose ", "3 fedt "})

\* pieces of the name part of a line
NameFragments ==
    dkSet(
    {"hviøg", "mælk", "mere", "citron", "bredbladet persille", " ", "-",
     "hakket", ", hakket", " (x)", ", kun saften", ", saft og fintrevet skal heraf"})

RECURSIVE Concatenations(_)
Concatenations(n) ==
    IF n = 0 THEN {""}
    ELSE LET shorter == Concatenations(n - 1)
         IN  shorter \cup {s \o f : s \in shorter, f \in NameFragments}

NameInputs == Concatenations(MaxFrags)

LineInputs == {p \o n : p \in Prefixes, n \in NameInputs}

UnitInputs ==
    LET words == all_units \cup dkSet({"", "fedt", "dåser"})
        cased == words \cup {upper(w) : w \in words} \cup {capitalize(w) : w \in words}
    IN  cased \cup {" " \o w \o " " : w \in cased}

LineInit ==
    /\ call \in {"parse_ingredient_text", "clean_ingredient_name", "normalize_unit"}
    /\ arg \in CASE call = "parse_ingredient_text" -> LineInputs
                 [] call = "clean_ingredient_name" -> NameInputs
                 [] call = "normalize_unit" -> UnitInputs
    /\ pc = "call"
    /\ amount = ""
    /\ remaining_text = ""
    /\ unit = ""
    /\ ingredient_text = ""
    /\ result = None
    /\ again = None
    /\ NoRequest

\* parse_ingredient_text, lines 234-247
ParseAmount ==
    /\ call = "parse_ingredient_text" /\ pc = "call"
    /\ LET text == strip(arg)
           a == ExtractAmount(text)
       IN  IF text = ""
           THEN /\ pc' = "done"
                /\ UNCHANGED <<amount, remaining_text>>
           ELSE /\ pc' = "unit"
                /\ amount' = a.amount
                /\ remaining_text' = a.remaining_text
    /\ UNCHANGED <<call, arg, unit, ingredient_text, result, again>>
    /\ UNCHANGED requestVars

\* parse_ingredient_text, lines 249-260
ParseUnit ==
    /\ call = "parse_ingredient_text" /\ pc = "unit"
    /\ LET u == ExtractUnit(remaining_text)
       IN  /\ unit' = u.unit
           /\ ingredient_text' = u.ingredient_text
    /\ pc' = "name"
    /\ UNCHANGED <<call, arg, amount, remaining_text, result, again>>
    /\ UNCHANGED requestVars

\* parse_ingredient_text, lines 262-272
ParseName ==
    /\ call = "parse_ingredient_text" /\ pc = "name"
    /\ LET ingredient_name == clean_ingredient_name(ingredient_text)
       IN  result' = IF ingredient_name = None THEN None
                     ELSE Some(Ingredient(ingredient_name[1], amount, unit))
    /\ pc' = "done"
    /\ UNCHANGED <<call, arg, amount, remaining_text, unit, ingredient_text, again>>
    /\ UNCHANGED requestVars

\* a call of clean_ingredient_name
CleanName ==
    /\ call = "clean_ingredient_name" /\ pc = "call"
    /\ result' = clean_ingredient_name(arg)
    /\ pc' = IF result' = None THEN "done" ELSE "cleaned"
    /\ UNCHANGED <<call, arg, amount, remaining_text, unit, ingredient_text, again>>
    /\ UNCHANGED requestVars

\* clean_ingredient_name called on the name it returned
CleanAgain ==
    /\ call = "clean_ingredient_name" /\ pc = "cleaned"
    /\ again' = clean_ingredient_name(result[1])
    /\ pc' = "done"
    /\ UNCHANGED <<call, arg, amount, remaining_text, unit, ingredient_text, result>>
    /\ UNCHANGED requestVars

\* a call of normalize_unit
NormalizeUnit ==
    /\ call = "normalize_unit" /\ pc = "call"
    /\ result' = Some(normalize_unit(arg))
    /\ pc' = "done"
    /\ UNCHANGED <<call, arg, amount, remaining_text, unit, ingredient_text, again>>
    /\ UNCHANGED requestVars

LineNext ==
    \/ ParseAmount
    \/ ParseUnit
    \/ ParseName
    \/ CleanName
    \/ CleanAgain
    \/ NormalizeUnit

LineSpec == LineInit /\ [][LineNext]_vars

(***************************************************************************)
(* parse_ingredients_from_text.                                            *)
(***************************************************************************)
\* text.split('\n')
RECURSIVE SplitLines(_)
SplitLines(text) ==
    LET k == Find(text, "\n", 1)
    IN  IF k = 0 THEN <<text>>
        ELSE <<Upto(text, k - 1)>> \o SplitLines(From(text, k + 1))

instruction_indicators ==
    dkSet({"bland", "tilsæt", "hæld", "kog", "steg", "varm", "server", "rør", "kom"})

MaxInstructionTokens == 10
MinLineLength == 3

\* SkipLine with the indicators looked up in the line as written (no lower())
SkipLine_CaseSensitive(line) ==
    \/ line = ""
    \/ Len(line) < MinLineLength
    \/ Len(split(line)) > MaxInstructionTokens
    \/ \E indicator \in instruction_indicators : Contains(line, indicator)

\* lines 283-290: whether the stripped line is skipped
SkipLine(line) ==
    \/ line = ""
    \/ Len(line) < MinLineLength
    \/ Len(split(line)) > MaxInstructionTokens
    \/ \E indicator \in instruction_indicators : Contains(lower(line), indicator)

\* the key of an Ingredient by its name alone
IngredientKey_NameOnly(ingredient) == lower(ingredient.name)

\* line 301: f"{ingredient.name.lower()}_{ingredient.unit.lower()}"
IngredientKey(ingredient) == lower(ingredient.name) \o "_" \o lower(ingredient.unit)

\* lines 297-306: the positions in the list of the Ingredients that are kept
RECURSIVE KeptFrom(_, _, _)
KeptFrom(list, i, seen) ==
    IF i > Len(list) THEN <<>>
    ELSE IF IngredientKey(list[i]) \notin seen
         THEN <<i>> \o KeptFrom(list, i + 1, seen \cup {IngredientKey(list[i])})
         ELSE KeptFrom(list, i + 1, seen)

Kept(list) == KeptFrom(list, 1, {})

At(list, positions) == [k \in 1..Len(positions) |-> list[positions[k]]]

(***************************************************************************)
(* POST /parse-image.  The OCR engine is outside the model: a request      *)
(* starts from the text it extracted.                                      *)
(***************************************************************************)
MaxLines == 3

OcrLines ==
    dkSet({"2 dl mælk", "3 DL Mælk", "mælk", "6 fed hvidløg", "KOG pasta", " ab ", "",
           "mere", "1 a b c d e f g h j k", "1 a b c d e f g h j"})

RECURSIVE OcrTexts(_)
OcrTexts(n) ==
    IF n = 1 THEN OcrLines
    ELSE OcrTexts(n - 1) \cup {t \o "\n" \o l : t \in OcrTexts(n - 1), l \in OcrLines}

ImageInit ==
    /\ NoCall
    /\ endpoint = "/parse-image"
    /\ extracted_text \in OcrTexts(MaxLines)
    /\ page = NoPage
    /\ at = "lines"
    /\ idx = 1
    /\ lines = SplitLines(extracted_text)
    /\ ingredients = <<>>
    /\ origin = <<>>
    /\ passed = {}
    /\ unique_ingredients = <<>>
    /\ unique_origin = <<>>
    /\ recipe_title = None
    /\ trace = <<>>
    /\ response = None

\* parse_ingredients_from_text, lines 281-294: one turn of the loop
ParseLine ==
    /\ endpoint = "/parse-image" /\ at = "lines" /\ idx <= Len(lines)
    /\ LET line == strip(lines[idx])
           parsed == parse_ingredient_text(line)
       IN  IF SkipLine(line)
           THEN UNCHANGED <<ingredients, origin, passed>>
           ELSE /\ passed' = passed \cup {idx}
                /\ IF parsed # None /\ parsed[1].name # ""
                   THEN /\ ingredients' = Append(ingredients, parsed[1])
                        /\ origin' = Append(origin, idx)
                   ELSE UNCHANGED <<ingredients, origin>>
    /\ idx' = idx + 1
    /\ UNCHANGED <<endpoint, extracted_text, page, at, lines, unique_ingredients,
                   unique_origin, recipe_title, trace, response>>
    /\ UNCHANGED lineVars

\* parse_ingredients_from_text, lines 296-308
Deduplicate ==
    /\ endpoint = "/parse-image" /\ at = "lines" /\ idx > Len(lines)
    /\ unique_ingredients' = At(ingredients, Kept(ingredients))
    /\ unique_origin' = At(origin, Kept(ingredients))
    /\ at' = "respond"
    /\ UNCHANGED <<endpoint, extracted_text, page, idx, lines, ingredients, origin,
                   passed, recipe_title, trace, response>>
    /\ UNCHANGED lineVars

RecipeResponse(list, success, recipeName, error) ==
    [type |-> "RecipeResponse", ingredients |-> list, success |-> success,
     recipeName |-> recipeName, error |-> error]

\* parse_image, lines 530-541
ImageResponse(list) ==
    IF list = <<>>
    THEN RecipeResponse(<<>>, FALSE, None, Some("Kunne ikke finde ingredienser i billedet"))
    ELSE RecipeResponse(list, TRUE, None, None)

RespondImage ==
    /\ endpoint = "/parse-image" /\ at = "respond"
    /\ response' = Some(ImageResponse(unique_ingredients))
    /\ at' = "done"
    /\ UNCHANGED <<endpoint, extracted_text, page, idx, lines, ingredients, origin,
                   passed, unique_ingredients, unique_origin, recipe_title, trace>>
    /\ UNCHANGED lineVars

ImageNext ==
    \/ ParseLine
    \/ Deduplicate
    \/ RespondImage

ImageSpec == ImageInit /\ [][ImageNext]_vars

(***************************************************************************)
(* The page of a /parse-url request.  The fetch and the HTML and JSON      *)
(* parsers are outside the model: a page is what they hand to the code.    *)
(*   scripts         the application/ld+json script tags; kind "none" is a *)
(*                   tag without content (script.string is None), "invalid"*)
(*                   a content json.loads rejects, "value" one it parses   *)
(*   elements        the elements some ingredient selector matches, in     *)
(*                   document order, each with the selectors that match it,*)
(*                   the get_text of its li descendants and its own        *)
(*   list_items      the get_text of the li elements outside of them       *)
(*   title_elements  the get_text of the elements the title selectors      *)
(*                   match, in the order the loop of lines 340-342 visits  *)
(*   h1, title       the get_text of the h1 elements and of the title tag  *)
(***************************************************************************)
JNull == [t |-> "null"]
JNum(n) == [t |-> "num", v |-> n]
JStr(s) == [t |-> "str", v |-> s]
JList(l) == [t |-> "list", v |-> l]
\* a JSON object; an absent key is None
JDict(type, name, recipeIngredient) ==
    [t |-> "dict", type |-> type, name |-> name, recipeIngredient |-> recipeIngredient]

Ok(v) == [exc |-> "none", value |-> v]
Raise(e) == [exc |-> e, value |-> None]

\* line 319 / 406: isinstance(data, dict) and '@type' in data and data['@type'] == 'Recipe'
IsRecipe(data) ==
    /\ data.t = "dict"
    /\ data.type # None
    /\ data.type[1].t = "str"
    /\ data.type[1].v = "Recipe"

\* lines 436-439: the loop over raw_ingredients; raw.strip() of a value that
\* is no string raises AttributeError
RECURSIVE ParseRawIngredients(_)
ParseRawIngredients(raw_ingredients) ==
    IF raw_ingredients = <<>> THEN Ok(<<>>)
    ELSE IF raw_ingredients[1].t # "str" THEN Raise("AttributeError")
    ELSE LET parsed == parse_ingredient_text(raw_ingredients[1].v)
             rest == ParseRawIngredients(Tail(raw_ingredients))
         IN  IF rest.exc # "none" THEN rest
             ELSE IF parsed # None THEN Ok(<<parsed[1]>> \o rest.value)
             ELSE rest

\* parse_jsonld_ingredients; iterating None or a number raises TypeError, and
\* iterating a string yields its characters
parse_jsonld_ingredients(data) ==
    LET raw == data.recipeIngredient
    IN  IF raw = None THEN Ok(<<>>)
        ELSE IF raw[1].t \in {"null", "num"} THEN Raise("TypeError")
        ELSE IF raw[1].t = "str"
             THEN ParseRawIngredients([i \in 1..Len(raw[1].v) |-> JStr(Ch(raw[1].v, i))])
        ELSE ParseRawIngredients(raw[1].v)

\* lines 404-411, one script tag: the Ingredients found, or the exception
\* that leaves the loop (json.loads(None) raises TypeError; JSONDecodeError
\* and AttributeError are caught and the loop continues)
JsonLdIngredients(script) ==
    IF script.kind = "none" THEN Raise("TypeError")
    ELSE IF script.kind = "invalid" THEN Ok(<<>>)
    ELSE IF ~IsRecipe(script.data) THEN Ok(<<>>)
    ELSE LET found == parse_jsonld_ingredients(script.data)
         IN  IF found.exc = "AttributeError" THEN Ok(<<>>) ELSE found

possible_selectors ==
    <<".recipe-ingredients", ".ingredients-list", ".ingredient-list", ".ingredients",
      "[itemprop=\"recipeIngredient\"]", ".recipe__ingredients", ".opskrift-ingredienser",
      ".ingredient-group", ".recipe-ingredients__list", ".ingredienser",
      ".wprm-recipe-ingredient", ".wprm-recipe-ingredients">>

Select(elements, selector) == SelectSeq(elements, LAMBDA e : selector \in e.selectors)

\* find_ingredient_elements
find_ingredient_elements(p) ==
    LET hits == {i \in 1..Len(possible_selectors) :
                    Select(p.elements, possible_selectors[i]) # <<>>}
    IN  IF hits = {} THEN <<>>
        ELSE Select(p.elements,
                    possible_selectors[CHOOSE i \in hits : \A j \in hits : i <= j])

MinTextLength == 2

\* lines 484-489 and 498-503: the texts longer than 2 that parse
RECURSIVE ParseTexts(_)
ParseTexts(texts) ==
    IF texts = <<>> THEN <<>>
    ELSE LET text == texts[1]
             parsed == IF text # "" /\ Len(text) > MinTextLength
                       THEN parse_ingredient_text(text) ELSE None
         IN  (IF parsed # None THEN <<parsed[1]>> ELSE <<>>) \o ParseTexts(Tail(texts))

\* lines 479-482: the items of an element
ItemTexts(element) == IF element.items # <<>> THEN element.items ELSE <<element.text>>

RECURSIVE Flatten(_)
Flatten(seqs) == IF seqs = <<>> THEN <<>> ELSE seqs[1] \o Flatten(Tail(seqs))

\* parse_html_ingredients
parse_html_ingredients(elements) ==
    ParseTexts(Flatten([i \in 1..Len(elements) |-> ItemTexts(elements[i])]))

\* soup.find_all('li'): the li elements of the page
AllListItems(p) ==
    Flatten([i \in 1..Len(p.elements) |-> p.elements[i].items]) \o p.list_items

\* parse_generic_lists
parse_generic_lists(p) == ParseTexts(AllListItems(p))

(***************************************************************************)
(* extract_recipe_title.                                                   *)
(***************************************************************************)
MinTitleLength == 3
MaxTitleLength == 200

\* lines 316-324
RECURSIVE TitleFromScripts(_, _)
TitleFromScripts(scripts, i) ==
    IF i > Len(scripts) THEN Ok(None)
    ELSE IF scripts[i].kind = "none" THEN Raise("TypeError")
    ELSE IF /\ scripts[i].kind = "value"
            /\ IsRecipe(scripts[i].data)
            /\ scripts[i].data.name # None
            /\ scripts[i].data.name[1].t = "str"
            /\ scripts[i].data.name[1].v # ""
            /\ Len(strip(scripts[i].data.name[1].v)) > MinTitleLength
         THEN Ok(Some(strip(scripts[i].data.name[1].v)))
    ELSE TitleFromScripts(scripts, i + 1)

\* lines 340-350
RECURSIVE TitleFromSelectors(_, _)
TitleFromSelectors(texts, i) ==
    IF i > Len(texts) THEN None
    ELSE IF /\ texts[i] # ""
            /\ Len(texts[i]) > MinTitleLength
            /\ Len(texts[i]) < MaxTitleLength
            /\ strip(NormalizeSpaces(texts[i])) # ""
         THEN Some(strip(NormalizeSpaces(texts[i])))
    ELSE TitleFromSelectors(texts, i + 1)

skip_keywords ==
    {"home", "menu", "blog", "about", "contact", "search", "kategori", "arkiv"}

\* lines 353-361
RECURSIVE TitleFromH1(_, _)
TitleFromH1(texts, i) ==
    IF i > Len(texts) THEN None
    ELSE IF /\ texts[i] # ""
            /\ Len(texts[i]) > MinTitleLength
            /\ Len(texts[i]) < MaxTitleLength
            /\ ~\E keyword \in skip_keywords : Contains(lower(texts[i]), keyword)
         THEN Some(texts[i])
    ELSE TitleFromH1(texts, i + 1)

\* the first position of s that holds a character of S, or 0
RECURSIVE FindAny(_, _, _)
FindAny(s, S, i) ==
    IF i > Len(s) THEN 0
    ELSE IF Ch(s, i) \in S THEN i
    ELSE FindAny(s, S, i + 1)

\* re.sub(r'\s*[<separators>]\s*.*$', '', s)
CutAtSeparator(s, separators) ==
    LET k == FindAny(s, separators, 1)
    IN  IF k = 0 THEN s ELSE Upto(s, SpaceRunStart(s, k) - 1)

\* lines 364-374
TitleFromTitleTag(title) ==
    IF title = None \/ title[1] = "" \/ Len(title[1]) <= MinTitleLength THEN None
    ELSE LET cut == strip(CutAtSeparator(CutAtSeparator(title[1], {"-", "|", EN_DASH}),
                                         {"|"}))
         IN  IF Len(cut) > MinTitleLength /\ Len(cut) < MaxTitleLength
             THEN Some(cut) ELSE None

\* extract_recipe_title: the title or None, or the exception raised
extract_recipe_title(p) ==
    LET fromScripts == TitleFromScripts(p.scripts, 1)
    IN  IF fromScripts.exc # "none" \/ fromScripts.value # None THEN fromScripts
        ELSE IF TitleFromSelectors(p.title_elements, 1) # None
             THEN Ok(TitleFromSelectors(p.title_elements, 1))
        ELSE IF TitleFromH1(p.h1, 1) # None THEN Ok(TitleFromH1(p.h1, 1))
        ELSE Ok(TitleFromTitleTag(p.title))

(***************************************************************************)
(* POST /parse-url.                                                        *)
(***************************************************************************)
MaxScripts == 2

Twice(s) == s \o s

\* a text of MaxTitleLength characters
LongTitle ==
    Upto(Twice(Twice(Twice(Twice(Twice(Twice(Twice(Twice("x")))))))), MaxTitleLength)

Value(data) == [kind |-> "value", data |-> data]
Recipe(name, recipeIngredient) == Value(JDict(Some(JStr("Recipe")), name, recipeIngredient))
Strings(texts) == JList([i \in 1..Len(texts) |-> JStr(dk(texts[i]))])

ScriptTags ==
    { [kind |-> "none", data |-> JNull],
      [kind |-> "invalid", data |-> JNull],
      Value(Strings(<<"1 chili">>)),
      Value(JDict(Some(JStr("WebSite")), Some(JStr("Min blog")), Some(Strings(<<"1 chili">>)))),
      Recipe(Some(JStr("Pandekager")), Some(Strings(<<"2 dl mælk", "2 dl mælk">>))),
      Recipe(None, None),
      Recipe(Some(JNum(42)), Some(JNull)),
      Recipe(Some(JStr(" Is ")), Some(JList(<<JStr(dk("6 fed hvidløg")), JNum(7)>>))),
      Recipe(Some(JStr(LongTitle)), Some(Strings(<<"mere">>))),
      Recipe(Some(JNull), Some(JStr("2 dl"))),
      Recipe(Some(JStr("Lasagne")), Some(JNum(5))) }

RECURSIVE ScriptSeqs(_)
ScriptSeqs(n) ==
    IF n = 0 THEN {<<>>}
    ELSE ScriptSeqs(n - 1)
            \cup {Append(q, t) : q \in {r \in ScriptSeqs(n - 1) : Len(r) = n - 1},
                                 t \in ScriptTags}

Element(selectors, items, text) == [selectors |-> selectors, items |-> items, text |-> text]
dkSeq(texts) == [i \in 1..Len(texts) |-> dk(texts[i])]

\* the elements and list items of a page
Bodies ==
    { [elements |-> <<>>, list_items |-> <<>>],
      [elements |-> <<Element({".ingredients"}, dkSeq(<<"2 dl mælk", "3 dl mælk">>), "")>>,
       list_items |-> <<"Forside">>],
      [elements |-> <<Element({".ingredients"}, <<>>, "mere"),
                      Element({".recipe-ingredients"}, dkSeq(<<"6 fed hvidløg">>), "")>>,
       list_items |-> <<>>],
      [elements |-> <<Element({".ingredients"}, <<"mere", "og">>, "")>>,
       list_items |-> <<"1 chili", "ab">>],
      [elements |-> <<>>, list_items |-> dkSeq(<<"2 dl mælk", "2 dl mælk">>)],
      [elements |-> <<Element({".wprm-recipe-ingredient"}, <<>>, "1 tsk salt"),
                      Element({".wprm-recipe-ingredient"}, <<>>, "ab")>>,
       list_items |-> <<>>] }

\* the title candidates of a page
Heads ==
    { [title_elements |-> <<>>, h1 |-> <<>>, title |-> None],
      [title_elements |-> <<"ab", "Pandekager  med   sirup">>, h1 |-> <<"Lasagne">>,
       title |-> Some("Min blog")],
      [title_elements |-> <<"a   b">>, h1 |-> <<>>, title |-> None],
      [title_elements |-> <<LongTitle>>, h1 |-> <<"Menu", "Lasagne">>, title |-> None],
      [title_elements |-> <<>>, h1 |-> <<"Menu", LongTitle>>,
       title |-> Some("Lasagne - Min blog")],
      [title_elements |-> <<>>, h1 |-> <<>>, title |-> Some("Kage | Opskrifter")],
      [title_elements |-> <<>>, h1 |-> <<>>, title |-> Some("Is = Min blog")] }

NoBody == [elements |-> <<>>, list_items |-> <<>>]
NoHead == [title_elements |-> <<>>, h1 |-> <<>>, title |-> None]

Page(scripts, body, head) ==
    [scripts |-> scripts, elements |-> body.elements, list_items |-> body.list_items,
     title_elements |-> head.title_elements, h1 |-> head.h1, title |-> head.title]

Pages ==
    {Page(q, b, NoHead) : q \in ScriptSeqs(MaxScripts), b \in Bodies}
        \cup {Page(q, NoBody, h) : q \in ScriptSeqs(MaxScripts), h \in Heads}

UrlInit ==
    /\ NoCall
    /\ endpoint = "/parse-url"
    /\ extracted_text = ""
    /\ page \in Pages
    /\ at = "title"
    /\ idx = 1
    /\ lines = <<>>
    /\ ingredients = <<>>
    /\ origin = <<>>
    /\ passed = {}
    /\ unique_ingredients = <<>>
    /\ unique_origin = <<>>
    /\ recipe_title = None
    /\ trace = <<>>
    /\ response = None

Ran(strategy, found) == [strategy |-> strategy, found |-> found]

\* extract_recipe_data, line 396
ExtractTitle ==
    /\ endpoint = "/parse-url" /\ at = "title"
    /\ LET title == extract_recipe_title(page)
       IN  IF title.exc # "none"
           THEN /\ at' = "raise"
                /\ UNCHANGED recipe_title
           ELSE /\ at' = "jsonld"
                /\ recipe_title' = title.value
    /\ UNCHANGED <<endpoint, extracted_text, page, idx, lines, ingredients, origin,
                   passed, unique_ingredients, unique_origin, trace, response>>
    /\ UNCHANGED lineVars

\* Returned for a code that runs every strategy
Returned_NoShortCircuit(found) == FALSE

\* whether the result of a strategy is returned (lines 408, 417)
Returned(found) == found # <<>>

\* extract_recipe_data, lines 403-411: one turn of the loop over the script tags
TryJsonLd ==
    /\ endpoint = "/parse-url" /\ at = "jsonld" /\ idx <= Len(page.scripts)
    /\ LET found == JsonLdIngredients(page.scripts[idx])
       IN  IF found.exc # "none"
           THEN /\ at' = "raise"
                /\ UNCHANGED <<idx, ingredients, trace>>
           ELSE /\ trace' = Append(trace, Ran("jsonld", found.value))
                /\ ingredients' = found.value
                /\ IF Returned(found.value)
                   THEN at' = "respond" /\ UNCHANGED idx
                   ELSE at' = "jsonld" /\ idx' = idx + 1
    /\ UNCHANGED <<endpoint, extracted_text, page, lines, origin, passed,
                   unique_ingredients, unique_origin, recipe_title, response>>
    /\ UNCHANGED lineVars

\* extract_recipe_data, lines 414-418
TrySelectors ==
    /\ endpoint = "/parse-url" /\ at = "jsonld" /\ idx > Len(page.scripts)
    /\ LET ingredient_elements == find_ingredient_elements(page)
           found == IF ingredient_elements # <<>>
                    THEN parse_html_ingredients(ingredient_elements)
                    ELSE ingredients
       IN  /\ trace' = Append(trace, Ran("selectors", found))
           /\ ingredients' = found
           /\ at' = IF ingredient_elements # <<>> /\ Returned(found)
                    THEN "respond" ELSE "generic"
    /\ UNCHANGED <<endpoint, extracted_text, page, idx, lines, origin, passed,
                   unique_ingredients, unique_origin, recipe_title, response>>
    /\ UNCHANGED lineVars

\* extract_recipe_data, lines 421-423
TryGenericLists ==
    /\ endpoint = "/parse-url" /\ at = "generic"
    /\ LET found == parse_generic_lists(page)
       IN  /\ trace' = Append(trace, Ran("generic", found))
           /\ ingredients' = found
    /\ at' = "respond"
    /\ UNCHANGED <<endpoint, extracted_text, page, idx, lines, origin, passed,
                   unique_ingredients, unique_origin, recipe_title, response>>
    /\ UNCHANGED lineVars

\* UrlResponse without the title when no ingredients are found
UrlResponse_NoTitleOnFailure(list, title) ==
    IF list = <<>>
    THEN RecipeResponse(<<>>, FALSE, None, Some(dk("Kunne ikke finde ingredienser på siden")))
    ELSE RecipeResponse(list, TRUE, title, None)

\* parse_url, lines 555-567
UrlResponse(list, title) ==
    IF list = <<>>
    THEN RecipeResponse(<<>>, FALSE, title, Some(dk("Kunne ikke finde ingredienser på siden")))
    ELSE RecipeResponse(list, TRUE, title, None)

RespondUrl ==
    /\ endpoint = "/parse-url" /\ at = "respond"
    /\ response' = Some(UrlResponse(ingredients, recipe_title))
    /\ at' = "done"
    /\ UNCHANGED <<endpoint, extracted_text, page, idx, lines, ingredients, origin,
                   passed, unique_ingredients, unique_origin, recipe_title, trace>>
    /\ UNCHANGED lineVars

HTTPException(status_code) == [type |-> "HTTPException", status_code |-> status_code]

BadRequest == 400

\* extract_recipe_data, lines 425-427, and parse_url, lines 569-571
RaiseUrl ==
    /\ endpoint = "/parse-url" /\ at = "raise"
    /\ response' = Some(HTTPException(BadRequest))
    /\ at' = "done"
    /\ UNCHANGED <<endpoint, extracted_text, page, idx, lines, ingredients, origin,
                   passed, unique_ingredients, unique_origin, recipe_title, trace>>
    /\ UNCHANGED lineVars

UrlNext ==
    \/ ExtractTitle
    \/ TryJsonLd
    \/ TrySelectors
    \/ TryGenericLists
    \/ RespondUrl
    \/ RaiseUrl

UrlSpec == UrlInit /\ [][UrlNext]_vars

(***************************************************************************)
(* The service: a call of one of the pure functions, or a request to       *)
(* either endpoint.                                                        *)
(***************************************************************************)
Init == LineInit \/ ImageInit \/ UrlInit

Next == LineNext \/ ImageNext \/ UrlNext

Spec == Init /\ [][Next]_vars

(***************************************************************************)
(* Properties.                                                             *)
(***************************************************************************)
ParseDone == call = "parse_ingredient_text" /\ pc = "done"

\* the Ingredients of the request were parsed and deduplicated
ImageParsed == endpoint = "/parse-image" /\ at \in {"respond", "done"}

\* the request was answered with a RecipeResponse
Answered == at = "done" /\ response # None /\ response[1].type = "RecipeResponse"

IsIngredientName(name) == name # "" /\ name \notin NON_INGREDIENT_WORDS

\* C1: whenever parse_ingredient_text returns an Ingredient, its name is a
\* non-empty string that is not a member of NON_INGREDIENT_WORDS, and so is
\* the name of every Ingredient of the OCR path, of every strategy of the
\* URL path and of every response.
C1_NameIsIngredient ==
    /\ (ParseDone /\ result # None) => IsIngredientName(result[1].name)
    /\ \A i \in DOMAIN ingredients : IsIngredientName(ingredients[i].name)
    /\ \A i \in DOMAIN unique_ingredients : IsIngredientName(unique_ingredients[i].name)
    /\ \A k \in DOMAIN trace : \A i \in DOMAIN trace[k].found :
           IsIngredientName(trace[k].found[i].name)
    /\ Answered => \A i \in DOMAIN response[1].ingredients :
                       IsIngredientName(response[1].ingredients[i].name)

\* a line that contains a non-ingredient word and still yields an Ingredient
C1_Witness ==
    /\ ParseDone /\ result # None
    /\ Contains(ingredient_text, "mere")
    /\ result[1].name # ""

\* C2: normalize_unit returns every special unit unchanged and every upper or
\* mixed-case spelling of one lowercased, and a special unit matched as the
\* unit of a line is the unit of the parsed line.
C2_SpecialUnitFirewall ==
    \A u \in SPECIAL_DANISH_UNITS :
        /\ (call = "normalize_unit" /\ pc = "done"
                /\ arg \in {u, upper(u), capitalize(u)}) => result = Some(u)
        /\ (call = "parse_ingredient_text" /\ pc \in {"name", "done"}
                /\ Len(u) <= Len(remaining_text)
                /\ lower(Upto(remaining_text, Len(u))) = u
                /\ WordBoundary(remaining_text, Len(u) + 1)) => unit = u

\* a line whose unit is an upper-case spelling of a special unit
C2_Witness ==
    /\ ParseDone
    /\ StartsAt(remaining_text, 1, "FED")
    /\ unit = "fed"

\* C3: when the name part of a line contains a token that is a key of the
\* correction map, the Ingredient produced carries the corrected spelling.
C3_CorrectionApplied ==
    \A k \in DOMAIN DANISH_CORRECTIONS :
        (ParseDone /\ result # None
            /\ \E i \in DOMAIN split(lower(ingredient_text)) :
                   split(lower(ingredient_text))[i] = k)
        => Contains(result[1].name, DANISH_CORRECTIONS[k])

\* lowercased(name) + "_" + lowercased(unit)
NameUnitKey(ingredient) == lower(ingredient.name) \o "_" \o lower(ingredient.unit)

\* the position of the first Ingredient of the list that has the key
FirstWith(list, key) ==
    CHOOSE i \in DOMAIN list :
        /\ NameUnitKey(list[i]) = key
        /\ \A m \in 1..(i - 1) : NameUnitKey(list[m]) # key

Increasing(positions) ==
    \A i, j \in DOMAIN positions : i < j => positions[i] < positions[j]

NoDuplicateKeys(list) ==
    \A i, j \in DOMAIN list : NameUnitKey(list[i]) = NameUnitKey(list[j]) => i = j

\* C4: the sequence parse_ingredients_from_text returns has no two
\* Ingredients with the same key lowercased(name)_lowercased(unit); it holds,
\* for each key of a parsed Ingredient, exactly the first parsed Ingredient
\* with that key, and its Ingredients are in the order of their source lines.
C4_BlockDeduplication ==
    ImageParsed =>
        /\ \A i \in DOMAIN ingredients :
               Some(ingredients[i]) = parse_ingredient_text(lines[origin[i]])
        /\ Increasing(origin)
        /\ NoDuplicateKeys(unique_ingredients)
        /\ \A i \in DOMAIN ingredients : \E j \in DOMAIN unique_ingredients :
               NameUnitKey(unique_ingredients[j]) = NameUnitKey(ingredients[i])
        /\ \A j \in DOMAIN unique_ingredients :
               /\ unique_ingredients[j] =
                      ingredients[FirstWith(ingredients, NameUnitKey(unique_ingredients[j]))]
               /\ unique_origin[j] =
                      origin[FirstWith(ingredients, NameUnitKey(unique_ingredients[j]))]
        /\ Increasing(unique_origin)

\* three parsed lines, two of them with one key and different amounts
C4_Witness ==
    /\ ImageParsed /\ at = "done"
    /\ Len(ingredients) = 3
    /\ Len(unique_ingredients) = 2
    /\ NameUnitKey(ingredients[1]) = NameUnitKey(ingredients[2])
    /\ ingredients[1].amount # ingredients[2].amount
    /\ unique_ingredients[1].amount = ingredients[1].amount

\* C5: no strategy of the URL path (JSON-LD recipeIngredient list, list items
\* found by selectors, generic list items) returns two Ingredients with the
\* same name/unit key.
C5_ListPathDeduplicates ==
    endpoint = "/parse-url" => \A k \in DOMAIN trace : NoDuplicateKeys(trace[k].found)

\* the line, after trimming, is empty, shorter than 3 characters, has more
\* than 10 tokens or contains an instruction verb in any case
Discarded(line) ==
    \/ strip(line) = ""
    \/ Len(strip(line)) < MinLineLength
    \/ Len(split(strip(line))) > MaxInstructionTokens
    \/ \E verb \in instruction_indicators : Contains(lower(strip(line)), verb)

\* C6: no Ingredient of parse_ingredients_from_text originates from a
\* discarded line, and every other line is passed to the line parser.
C6_InstructionFilter ==
    endpoint = "/parse-image" =>
        /\ passed = {i \in 1..(idx - 1) : ~Discarded(lines[i])}
        /\ \A k \in DOMAIN origin : ~Discarded(lines[origin[k]])
        /\ \A k \in DOMAIN unique_origin : ~Discarded(lines[unique_origin[k]])

\* a block with an upper-case instruction line and a line that is parsed
C6_Witness ==
    /\ ImageParsed /\ at = "done"
    /\ \E i \in DOMAIN lines : lines[i] = "KOG pasta" /\ i \notin passed
    /\ unique_ingredients # <<>>

Rank(strategy) ==
    CASE strategy = "jsonld" -> 1
      [] strategy = "selectors" -> 2
      [] strategy = "generic" -> 3

\* what a strategy finds on the page; the k-th run of the JSON-LD strategy
\* reads the k-th script tag
Finds(strategy, k) ==
    CASE strategy = "jsonld" -> JsonLdIngredients(page.scripts[k]).value
      [] strategy = "selectors" -> parse_html_ingredients(find_ingredient_elements(page))
      [] strategy = "generic" -> parse_generic_lists(page)

\* C7: the strategies of extract_recipe_data run in the order JSON-LD,
\* selectors, generic list items; a strategy runs only if every run before
\* it found nothing, none runs after a non-empty result, and the result
\* returned is that of the last run: the earliest non-empty one, or empty
\* after all three.
C7_StrategyShortCircuit ==
    endpoint = "/parse-url" =>
        /\ \A i, j \in DOMAIN trace : i < j =>
               /\ Rank(trace[i].strategy) <= Rank(trace[j].strategy)
               /\ trace[i].strategy = trace[j].strategy => trace[i].strategy = "jsonld"
        /\ \A k \in DOMAIN trace : trace[k].found = Finds(trace[k].strategy, k)
        /\ \A k \in DOMAIN trace : k < Len(trace) => trace[k].found = <<>>
        /\ Answered =>
               /\ trace # <<>>
               /\ response[1].ingredients = trace[Len(trace)].found
               /\ response[1].ingredients = <<>> =>
                      trace[Len(trace)].strategy = "generic"

\* two script tags without ingredients, then the selectors win on a page
\* whose generic list items would parse too
C7_Witness ==
    /\ endpoint = "/parse-url" /\ Answered
    /\ Len(trace) = 3
    /\ trace[3].strategy = "selectors"
    /\ trace[3].found # <<>>
    /\ parse_generic_lists(page) # <<>>
    /\ parse_generic_lists(page) # trace[3].found

\* a JSON-LD block that is empty, is not valid JSON, is not a Recipe object,
\* or has a missing, null or non-list recipeIngredient or a non-string entry
Malformed(script) ==
    \/ script.kind \in {"none", "invalid"}
    \/ ~IsRecipe(script.data)
    \/ script.data.recipeIngredient = None
    \/ script.data.recipeIngredient[1].t # "list"
    \/ \E i \in DOMAIN script.data.recipeIngredient[1].v :
           script.data.recipeIngredient[1].v[i].t # "str"

\* C8: a request whose page has a malformed JSON-LD block does not end in an
\* error.
C8_MalformedNeverFatal ==
    (/\ endpoint = "/parse-url" /\ at = "done"
     /\ \E i \in DOMAIN page.scripts : Malformed(page.scripts[i]))
    => response[1].type = "RecipeResponse"

\* C9: a RecipeResponse has success = true exactly when its ingredients are
\* non-empty and an error string exactly when success = false; the response
\* of /parse-url carries the extracted title whether or not ingredients were
\* found, and the response of /parse-image carries no recipeName.
C9_ResponseShape ==
    Answered =>
        /\ response[1].success = (response[1].ingredients # <<>>)
        /\ (response[1].error # None) = ~response[1].success
        /\ endpoint = "/parse-url" =>
               response[1].recipeName = extract_recipe_title(page).value
        /\ endpoint = "/parse-image" => response[1].recipeName = None

\* a page with a title and no ingredients
C9_Witness ==
    /\ Answered /\ endpoint = "/parse-url"
    /\ ~response[1].success
    /\ response[1].error # None
    /\ response[1].recipeName # None

\* C10: a name returned by clean_ingredient_name is a fixed point of
\* clean_ingredient_name.
C10_CleanIdempotent ==
    (call = "clean_ingredient_name" /\ pc = "done" /\ result # None) => again = result

\* the number of characters of  <digits><optional whitespace><fraction glyph>
\* at the start of text, or 0 when text does not begin so
MixedFractionLength(text) ==
    LET d == Span(text, 1, DIGITS)
        w == Span(text, d + 1, WHITESPACE)
    IN  IF d >= 1 /\ d + w + 1 <= Len(text) /\ Ch(text, d + w + 1) \in FRACTIONS
        THEN d + w + 1
        ELSE 0

\* C11: for a line that begins with digits followed, optionally after
\* whitespace, by a fraction glyph, the amount parse_ingredient_text extracts
\* is the digits together with the glyph, and the text from which unit and
\* name are extracted begins after the glyph.
C11_MixedFractionAmount ==
    (/\ call = "parse_ingredient_text" /\ pc \in {"unit", "name", "done"}
     /\ MixedFractionLength(strip(arg)) # 0)
    => /\ amount = Upto(strip(arg), MixedFractionLength(strip(arg)))
       /\ remaining_text = strip(From(strip(arg), MixedFractionLength(strip(arg)) + 1))

\* C12: whichever stage of extract_recipe_title produces it, a title that is
\* returned is longer than 3 and shorter than 200 characters.
C12_TitleLengthBound ==
    (endpoint = "/parse-url" /\ at \notin {"title", "raise"} /\ recipe_title # None)
    => Len(recipe_title[1]) > 3 /\ Len(recipe_title[1]) < 200

=============================================================================
